---- MODULE Spec2Model ----
(***************************************************************************)
(* Model of genkit/web/handlers.py: the ASGI lifespan handler built by     *)
(* create_lifespan_handler.  Each connection runs its own handle_lifespan  *)
(* coroutine; the model follows every coroutine from one suspension point  *)
(* (await receive(), await on_lifespan_begin/end(...)) to the next, and    *)
(* records what it did in a per-connection history.                        *)
(*                                                                         *)
(* handle_not_found and handle_health_check are modelled per HTTP request *)
(* from one `await send(...)` to the next.  They share no state with the   *)
(* lifespan handler, so the lifespan runs are explored under Spec and the  *)
(* HTTP requests under HttpSpec.                                           *)
(*                                                                         *)
(* Outside the model: callbacks that themselves call receive/send, and     *)
(* BaseException (cancellation) raised into the coroutine; `except         *)
(* Exception` is modelled for Exception instances only.                    *)
(***************************************************************************)
EXTENDS Naturals, Sequences, FiniteSets

\* ---------------------------------------------------------------- bounds

\* Number of 'lifespan.startup' messages the host may deliver to one
\* connection (the handler itself puts no limit on them).
MaxStartups == 2

\* ------------------------------------------------------------- constants

\* Independent connections, each with its own handle_lifespan run.
Conns == {"c1", "c2"}

Startup == "lifespan.startup"
Shutdown == "lifespan.shutdown"

\* Message types matched by `case _`.
Unsupported == {"lifespan.restart"}

StartupComplete == "lifespan.startup.complete"
StartupFailed == "lifespan.startup.failed"
ShutdownComplete == "lifespan.shutdown.complete"
ShutdownFailed == "lifespan.shutdown.failed"

\* HTTP requests in flight, each served by one handler call.
Requests == {"r1", "r2"}

\* HTTP scopes a handler may be given; NoScope before the call.
Scopes ==
    {[type |-> "http", method |-> "GET", path |-> "/health"],
     [type |-> "http", method |-> "GET", path |-> "/missing"],
     [type |-> "http", method |-> "POST", path |-> "/health"]}
NoScope == [type |-> "none", method |-> "", path |-> ""]

\* Exceptions a callback may raise, as their args tuples:
\* Exception(), Exception('boom'), Exception('disk', 'full').
Errors == {<<>>, <<"boom">>, <<"disk", "full">>}

\* Variant of str: repr(e) in place of str(e).
str_repr(e) ==
    IF Len(e) = 0 THEN "Exception()"
    ELSE IF Len(e) = 1 THEN "Exception('" \o e[1] \o "')"
    ELSE "Exception('" \o e[1] \o "', '" \o e[2] \o "')"

\* str(e) of a Python exception: '' without args, str(arg) for one arg,
\* the repr of the args tuple otherwise.
str(e) ==
    IF Len(e) = 0 THEN ""
    ELSE IF Len(e) = 1 THEN e[1]
    ELSE "('" \o e[1] \o "', '" \o e[2] \o "')"

\* ----------------------------------------------------------------- state

VARIABLES
    on_lifespan_begin,      \* [Conns -> BOOLEAN]: callback configured?
    on_lifespan_end,        \* [Conns -> BOOLEAN]: callback configured?
    logger_error_awaitable, \* does logger.error(...) return an awaitable?
    pc,                     \* [Conns -> where the coroutine is suspended]
    kind,                   \* [Conns -> message['type'] last received]
    history,                \* [Conns -> Seq(Event)]: what the run has done
    http_handler,           \* [Requests -> handler serving the request]
    http_scope,             \* [Requests -> scope the handler was given]
    http_pc,                \* [Requests -> where the handler is suspended]
    http_history            \* [Requests -> Seq(Event)]: what it has done

vars == <<on_lifespan_begin, on_lifespan_end, logger_error_awaitable,
          pc, kind, history, http_handler, http_scope, http_pc, http_history>>

lifespan == <<on_lifespan_begin, on_lifespan_end, logger_error_awaitable,
              pc, kind, history>>

http == <<http_handler, http_scope, http_pc, http_history>>

config == <<on_lifespan_begin, on_lifespan_end, logger_error_awaitable>>

\* History events.  ev is one of "receive", "log", "call", "return",
\* "raise", "send"; type is the message type, the logger method or the
\* callback; message is the text carried; error the exception raised.
Event(ev, type, message, error) ==
    [ev |-> ev, type |-> type, message |-> message, error |-> error]

Received(k) == Event("receive", k, "", <<>>)
Logged(method, text) == Event("log", method, text, <<>>)
Called(cb) == Event("call", cb, "", <<>>)
Returned(cb) == Event("return", cb, "", <<>>)
Raised(cb, e) == Event("raise", cb, "", e)
Sent(type, message) == Event("send", type, message, <<>>)

\* Number of startup messages connection c has received.
StartupsReceived(c) ==
    Cardinality({i \in 1..Len(history[c]) :
                    history[c][i] = Received(Startup)})

Init ==
    /\ on_lifespan_begin \in [Conns -> BOOLEAN]
    /\ on_lifespan_end \in [Conns -> BOOLEAN]
    /\ logger_error_awaitable \in BOOLEAN
    /\ pc = [c \in Conns |-> "receive"]
    /\ kind = [c \in Conns |-> "none"]
    /\ history = [c \in Conns |-> <<>>]
    /\ http_handler = [r \in Requests |-> "none"]
    /\ http_scope = [r \in Requests |-> NoScope]
    /\ http_pc = [r \in Requests |-> "idle"]
    /\ http_history = [r \in Requests |-> <<>>]

\* --------------------------------------------------------------- actions

\* Effect of one step of connection c: append events, move the coroutine.
Step(c, events, next) ==
    /\ history' = [history EXCEPT ![c] = @ \o events]
    /\ pc' = [pc EXCEPT ![c] = next]
    /\ UNCHANGED <<config, http>>

\* Variant of StartupNoCallback: returns after the send instead of looping.
StartupNoCallback_Returns(c) ==
    /\ pc[c] = "receive"
    /\ StartupsReceived(c) < MaxStartups
    /\ ~on_lifespan_begin[c]
    /\ kind' = [kind EXCEPT ![c] = Startup]
    /\ Step(c, <<Received(Startup), Sent(StartupComplete, "")>>, "returned")

\* case 'lifespan.startup' with on_lifespan_begin None: send complete, loop.
StartupNoCallback(c) ==
    /\ pc[c] = "receive"
    /\ StartupsReceived(c) < MaxStartups
    /\ ~on_lifespan_begin[c]
    /\ kind' = [kind EXCEPT ![c] = Startup]
    /\ Step(c, <<Received(Startup), Sent(StartupComplete, "")>>, "receive")

\* Variant of StartupCallback: the complete send precedes the callback.
StartupCallback_CompletesEarly(c) ==
    /\ pc[c] = "receive"
    /\ StartupsReceived(c) < MaxStartups
    /\ on_lifespan_begin[c]
    /\ kind' = [kind EXCEPT ![c] = Startup]
    /\ Step(c, <<Received(Startup), Logged("ainfo", "lifespan startup"),
                 Sent(StartupComplete, ""),
                 Called("on_lifespan_begin")>>, "on_lifespan_begin")

\* Variant of StartupCallback: the handler remembers that startup was
\* done and answers a later startup without invoking the callback again.
StartupCallback_OnlyFirst(c) ==
    /\ pc[c] = "receive"
    /\ StartupsReceived(c) < MaxStartups
    /\ on_lifespan_begin[c]
    /\ kind' = [kind EXCEPT ![c] = Startup]
    /\ IF StartupsReceived(c) = 0
       THEN Step(c, <<Received(Startup), Logged("ainfo", "lifespan startup"),
                      Called("on_lifespan_begin")>>, "on_lifespan_begin")
       ELSE Step(c, <<Received(Startup), Sent(StartupComplete, "")>>,
                 "receive")

\* case 'lifespan.startup' with a callback: log, then await the callback.
StartupCallback(c) ==
    /\ pc[c] = "receive"
    /\ StartupsReceived(c) < MaxStartups
    /\ on_lifespan_begin[c]
    /\ kind' = [kind EXCEPT ![c] = Startup]
    /\ Step(c, <<Received(Startup), Logged("ainfo", "lifespan startup"),
                 Called("on_lifespan_begin")>>, "on_lifespan_begin")

\* Variant of OnBeginReturns: a deadline on the callback; the handler gives
\* up on a callback that has not completed, reports failure and returns.
OnBeginReturns_TimesOut(c) ==
    /\ pc[c] = "on_lifespan_begin"
    /\ UNCHANGED kind
    /\ Step(c, <<Sent(StartupFailed, "timeout")>>, "returned")

\* Variant of OnBeginReturns: returns after the send instead of looping.
OnBeginReturns_Returns(c) ==
    /\ pc[c] = "on_lifespan_begin"
    /\ UNCHANGED kind
    /\ Step(c, <<Returned("on_lifespan_begin"), Sent(StartupComplete, "")>>,
            "returned")

\* on_lifespan_begin returned: fall out of the try, send complete, loop.
OnBeginReturns(c) ==
    /\ pc[c] = "on_lifespan_begin"
    /\ UNCHANGED kind
    /\ Step(c, <<Returned("on_lifespan_begin"), Sent(StartupComplete, "")>>,
            "receive")

\* Variant of OnBeginRaises: the failure is kept in a flag shared by all
\* handlers of the module, so every connection's loop stops.
OnBeginRaises_StopsAll(c, e) ==
    /\ pc[c] = "on_lifespan_begin"
    /\ UNCHANGED <<kind, config, http>>
    /\ history' = [history EXCEPT ![c] = @ \o
                     <<Raised("on_lifespan_begin", e),
                       Logged("aerror", "lifespan startup failed"),
                       Sent(StartupFailed, str(e))>>]
    /\ pc' = [d \in Conns |-> "returned"]

\* Variant of OnBeginRaises: the `return` of the except block is missing,
\* so the handler falls through to the complete send and loops.
OnBeginRaises_FallsThrough(c, e) ==
    /\ pc[c] = "on_lifespan_begin"
    /\ UNCHANGED kind
    /\ Step(c, <<Raised("on_lifespan_begin", e),
                 Logged("aerror", "lifespan startup failed"),
                 Sent(StartupFailed, str(e)),
                 Sent(StartupComplete, "")>>, "receive")

\* on_lifespan_begin raised e: log, send failed with str(e), return.
OnBeginRaises(c, e) ==
    /\ pc[c] = "on_lifespan_begin"
    /\ UNCHANGED kind
    /\ Step(c, <<Raised("on_lifespan_begin", e),
                 Logged("aerror", "lifespan startup failed"),
                 Sent(StartupFailed, str(e))>>, "returned")

\* Variant of ShutdownNoCallback: the `return` closing the shutdown branch
\* is missing, so the handler goes on receiving.
ShutdownNoCallback_Continues(c) ==
    /\ pc[c] = "receive"
    /\ ~on_lifespan_end[c]
    /\ kind' = [kind EXCEPT ![c] = Shutdown]
    /\ Step(c, <<Received(Shutdown)>>, "receive")

\* Variant of ShutdownNoCallback: the complete send is outside the `if`.
ShutdownNoCallback_Acks(c) ==
    /\ pc[c] = "receive"
    /\ ~on_lifespan_end[c]
    /\ kind' = [kind EXCEPT ![c] = Shutdown]
    /\ Step(c, <<Received(Shutdown), Sent(ShutdownComplete, "")>>, "returned")

\* case 'lifespan.shutdown' with on_lifespan_end None: return silently.
ShutdownNoCallback(c) ==
    /\ pc[c] = "receive"
    /\ ~on_lifespan_end[c]
    /\ kind' = [kind EXCEPT ![c] = Shutdown]
    /\ Step(c, <<Received(Shutdown)>>, "returned")

\* case 'lifespan.shutdown' with a callback: log, then await the callback.
ShutdownCallback(c) ==
    /\ pc[c] = "receive"
    /\ on_lifespan_end[c]
    /\ kind' = [kind EXCEPT ![c] = Shutdown]
    /\ Step(c, <<Received(Shutdown), Logged("ainfo", "lifespan shutdown"),
                 Called("on_lifespan_end")>>, "on_lifespan_end")

\* Variant of OnEndReturns: the `return` after the complete send is
\* missing, so the handler goes on receiving.
OnEndReturns_Loops(c) ==
    /\ pc[c] = "on_lifespan_end"
    /\ UNCHANGED kind
    /\ Step(c, <<Returned("on_lifespan_end"), Sent(ShutdownComplete, "")>>,
            "receive")

\* Variant of OnEndReturns: the complete send is forgotten.
OnEndReturns_NoSend(c) ==
    /\ pc[c] = "on_lifespan_end"
    /\ UNCHANGED kind
    /\ Step(c, <<Returned("on_lifespan_end")>>, "returned")

\* on_lifespan_end returned: send complete, return.
OnEndReturns(c) ==
    /\ pc[c] = "on_lifespan_end"
    /\ UNCHANGED kind
    /\ Step(c, <<Returned("on_lifespan_end"), Sent(ShutdownComplete, "")>>,
            "returned")

\* Variant of OnEndRaises: the failed callback is invoked once more.
OnEndRaises_Retries(c, e) ==
    /\ pc[c] = "on_lifespan_end"
    /\ UNCHANGED kind
    /\ Step(c, <<Raised("on_lifespan_end", e),
                 Logged("aerror", "lifespan shutdown failed"),
                 Called("on_lifespan_end")>>, "on_lifespan_end")

\* Variant of OnEndRaises: the `return` of the except block is missing,
\* so the complete send follows the failed one.
OnEndRaises_AlsoCompletes(c, e) ==
    /\ pc[c] = "on_lifespan_end"
    /\ UNCHANGED kind
    /\ Step(c, <<Raised("on_lifespan_end", e),
                 Logged("aerror", "lifespan shutdown failed"),
                 Sent(ShutdownFailed, str(e)),
                 Sent(ShutdownComplete, "")>>, "returned")

\* on_lifespan_end raised e: log, send failed with str(e), return.
OnEndRaises(c, e) ==
    /\ pc[c] = "on_lifespan_end"
    /\ UNCHANGED kind
    /\ Step(c, <<Raised("on_lifespan_end", e),
                 Logged("aerror", "lifespan shutdown failed"),
                 Sent(ShutdownFailed, str(e))>>, "returned")

\* case _: `await logger.error(...)` calls the synchronous logger method,
\* which logs, and then awaits what it returned.  When that is not an
\* awaitable (structlog's bound loggers return None from error()), the
\* await raises TypeError out of the handler before the send is reached.
UnsupportedMessage(c, k) ==
    /\ pc[c] = "receive"
    /\ kind' = [kind EXCEPT ![c] = k]
    /\ IF logger_error_awaitable
       THEN Step(c, <<Received(k),
                      Logged("error", "Unsupported message type: " \o k),
                      Sent(StartupComplete, "")>>, "returned")
       ELSE Step(c, <<Received(k),
                      Logged("error", "Unsupported message type: " \o k),
                      Raised("await", <<"object NoneType can't be used in 'await' expression">>)>>,
                 "raised")

Next ==
    \E c \in Conns :
        \/ StartupNoCallback(c)
        \/ StartupCallback(c)
        \/ OnBeginReturns(c)
        \/ \E e \in Errors : OnBeginRaises(c, e)
        \/ ShutdownNoCallback(c)
        \/ ShutdownCallback(c)
        \/ OnEndReturns(c)
        \/ \E e \in Errors : OnEndRaises(c, e)
        \/ \E k \in Unsupported : UnsupportedMessage(c, k)

Spec == Init /\ [][Next]_vars

\* ---------------------------------------------------- the HTTP handlers

\* The two messages of an HTTP response, as passed to send.
ResponseStart(status, headers) ==
    [ev |-> "send",
     message |-> [type |-> "http.response.start", status |-> status,
                  headers |-> headers]]
ResponseBody(body) ==
    [ev |-> "send", message |-> [type |-> "http.response.body", body |-> body]]

\* A call of receive() by an HTTP handler (the code makes none).
ReceiveCalled == [ev |-> "receive", message |-> [type |-> "http.request"]]

\* Effect of one step of the handler serving request r.
HttpStep(r, events, next) ==
    /\ http_history' = [http_history EXCEPT ![r] = @ \o events]
    /\ http_pc' = [http_pc EXCEPT ![r] = next]
    /\ UNCHANGED lifespan

\* handle_not_found is called with a scope and awaits its first send.
NotFoundStart(r, scope) ==
    /\ http_pc[r] = "idle"
    /\ http_handler' = [http_handler EXCEPT ![r] = "handle_not_found"]
    /\ http_scope' = [http_scope EXCEPT ![r] = scope]
    /\ HttpStep(r, <<ResponseStart(404,
                        <<<<"content-type", "application/json">>>>)>>, "body")

\* Variant of NotFoundBody: the body serialised without the space.
NotFoundBody_Compact(r) ==
    /\ http_pc[r] = "body"
    /\ http_handler[r] = "handle_not_found"
    /\ UNCHANGED <<http_handler, http_scope>>
    /\ HttpStep(r, <<ResponseBody("{\"error\":\"Not Found\"}")>>, "returned")

\* handle_not_found sends the body and returns.
NotFoundBody(r) ==
    /\ http_pc[r] = "body"
    /\ http_handler[r] = "handle_not_found"
    /\ UNCHANGED <<http_handler, http_scope>>
    /\ HttpStep(r, <<ResponseBody("{\"error\": \"Not Found\"}")>>, "returned")

\* Variant of HealthCheckStart: reads the request before answering.
HealthCheckStart_Receives(r, scope) ==
    /\ http_pc[r] = "idle"
    /\ http_handler' = [http_handler EXCEPT ![r] = "handle_health_check"]
    /\ http_scope' = [http_scope EXCEPT ![r] = scope]
    /\ HttpStep(r, <<ReceiveCalled,
                     ResponseStart(200,
                        <<<<"content-type", "application/json">>>>)>>, "body")

\* handle_health_check is called with a scope and awaits its first send.
HealthCheckStart(r, scope) ==
    /\ http_pc[r] = "idle"
    /\ http_handler' = [http_handler EXCEPT ![r] = "handle_health_check"]
    /\ http_scope' = [http_scope EXCEPT ![r] = scope]
    /\ HttpStep(r, <<ResponseStart(200,
                        <<<<"content-type", "application/json">>>>)>>, "body")

\* handle_health_check sends the body and returns.
HealthCheckBody(r) ==
    /\ http_pc[r] = "body"
    /\ http_handler[r] = "handle_health_check"
    /\ UNCHANGED <<http_handler, http_scope>>
    /\ HttpStep(r, <<ResponseBody("{\"status\": \"ok\"}")>>, "returned")

HttpNext ==
    \E r \in Requests :
        \/ \E scope \in Scopes : NotFoundStart(r, scope)
        \/ NotFoundBody(r)
        \/ \E scope \in Scopes : HealthCheckStart(r, scope)
        \/ HealthCheckBody(r)

HttpSpec == Init /\ [][HttpNext]_vars

\* ------------------------------------------------- reading the history

\* Positions in c's history at which a message was received.
ReceiveAt(c) == {i \in 1..Len(history[c]) : history[c][i].ev = "receive"}

\* Last position of the handling of the message received at i: the event
\* before the next receive, or the end of the history.
HandlingEnd(c, i) ==
    LET later == {j \in ReceiveAt(c) : j > i}
    IN  IF later = {} THEN Len(history[c])
        ELSE (CHOOSE j \in later : \A m \in later : j <= m) - 1

\* What the handler did for the message received at i.
Handling(c, i) == SubSeq(history[c], i + 1, HandlingEnd(c, i))

\* The message received at i is the latest one received.
IsLatest(c, i) == HandlingEnd(c, i) = Len(history[c])

IsSend(x) == x.ev = "send"
IsCallbackEvent(x) == x.ev \in {"call", "return", "raise", "send"}
Sends(s) == SelectSeq(s, IsSend)
Range(s) == {s[i] : i \in 1..Len(s)}
Exited(c) == pc[c] \in {"returned", "raised"}

\* ----------------------------------------------------------------- C1
\* C1: with no on_lifespan_begin configured, every received
\* 'lifespan.startup' is answered by exactly one
\* 'lifespan.startup.complete' and nothing else, and the handler does not
\* return: it is back at `await receive()`.
C1_StartupNoCallbackCompletes ==
    \A c \in Conns : ~on_lifespan_begin[c] =>
        \A i \in ReceiveAt(c) : history[c][i].type = Startup =>
            /\ Handling(c, i) = <<Sent(StartupComplete, "")>>
            /\ IsLatest(c, i) => pc[c] = "receive"

\* Witness for C1: a connection without on_lifespan_begin has answered a
\* startup and then received a further message.
C1_Witness ==
    \E c \in Conns : \E i \in ReceiveAt(c) :
        /\ ~on_lifespan_begin[c]
        /\ history[c][i].type = Startup
        /\ ~IsLatest(c, i)

\* ----------------------------------------------------------------- C2
\* C2: when on_lifespan_begin raises e while a 'lifespan.startup' is
\* handled, exactly one 'lifespan.startup.failed' carrying str(e) is sent
\* (for Exception('boom') the text is "boom"), no
\* 'lifespan.startup.complete' is sent for that message, and the handler
\* returns: that send is the last thing in the run's history.
C2_StartupFailure ==
    \A c \in Conns : \A i \in ReceiveAt(c) : \A e \in Errors :
        (/\ history[c][i].type = Startup
         /\ Raised("on_lifespan_begin", e) \in Range(Handling(c, i)))
        => /\ Sends(Handling(c, i)) = <<Sent(StartupFailed, str(e))>>
           /\ e = <<"boom">> =>
                Sends(Handling(c, i))[1].message = "boom"
           /\ e = <<"disk", "full">> =>
                Sends(Handling(c, i))[1].message = "('disk', 'full')"
           /\ IsLatest(c, i)
           /\ history[c][Len(history[c])].type = StartupFailed
           /\ pc[c] = "returned"

\* Witness for C2: on_lifespan_begin has raised Exception('disk', 'full').
C2_Witness ==
    \E c \in Conns :
        Raised("on_lifespan_begin", <<"disk", "full">>) \in Range(history[c])

\* ----------------------------------------------------------------- C3
\* C3: when on_lifespan_end returns normally while a 'lifespan.shutdown'
\* is handled, the callback was invoked once and exactly one
\* 'lifespan.shutdown.complete' follows its return; nothing is sent while
\* the callback is still running; the handler then returns.
C3_ShutdownCallbackThenComplete ==
    \A c \in Conns : \A i \in ReceiveAt(c) :
        history[c][i].type = Shutdown =>
            /\ pc[c] = "on_lifespan_end" => Sends(Handling(c, i)) = <<>>
            /\ Returned("on_lifespan_end") \in Range(Handling(c, i)) =>
                /\ SelectSeq(Handling(c, i), IsCallbackEvent)
                     = <<Called("on_lifespan_end"),
                         Returned("on_lifespan_end"),
                         Sent(ShutdownComplete, "")>>
                /\ IsLatest(c, i)
                /\ pc[c] = "returned"

\* Witness for C3: on_lifespan_end has returned normally.
C3_Witness ==
    \E c \in Conns : Returned("on_lifespan_end") \in Range(history[c])

\* ----------------------------------------------------------------- C4
\* C4: with no on_lifespan_end configured, a received 'lifespan.shutdown'
\* is followed by no outbound message at all and the handler returns.
C4_ShutdownNoCallbackSilent ==
    \A c \in Conns : ~on_lifespan_end[c] =>
        \A i \in ReceiveAt(c) : history[c][i].type = Shutdown =>
            /\ Handling(c, i) = <<>>
            /\ IsLatest(c, i)
            /\ pc[c] = "returned"

\* Witness for C4: shutdown received after a startup, no on_lifespan_end.
C4_Witness ==
    \E c \in Conns :
        /\ ~on_lifespan_end[c]
        /\ Received(Startup) \in Range(history[c])
        /\ Received(Shutdown) \in Range(history[c])

\* ----------------------------------------------------------------- C5
\* C5: when on_lifespan_end raises e while a 'lifespan.shutdown' is
\* handled, exactly one 'lifespan.shutdown.failed' carrying str(e) is
\* sent, 'lifespan.shutdown.complete' is never sent in the run, and the
\* handler returns.
C5_ShutdownFailure ==
    \A c \in Conns : \A i \in ReceiveAt(c) : \A e \in Errors :
        (/\ history[c][i].type = Shutdown
         /\ Raised("on_lifespan_end", e) \in Range(Handling(c, i)))
        => /\ Sends(Handling(c, i)) = <<Sent(ShutdownFailed, str(e))>>
           /\ e = <<>> => Sends(Handling(c, i))[1].message = ""
           /\ e = <<"boom">> =>
                Sends(Handling(c, i))[1].message = "boom"
           /\ Sent(ShutdownComplete, "") \notin Range(history[c])
           /\ IsLatest(c, i)
           /\ pc[c] = "returned"

\* Witness for C5: on_lifespan_end has raised Exception('boom').
C5_Witness ==
    \E c \in Conns :
        Raised("on_lifespan_end", <<"boom">>) \in Range(history[c])

\* ----------------------------------------------------------------- C6
\* C6: a message of any other type is logged, answered by exactly one
\* 'lifespan.startup.complete', invokes no callback, and ends the run
\* normally: the handler returns, nothing is raised out of it and no
\* '*.failed' message is sent.
C6_UnsupportedCompletesAndReturns ==
    \A c \in Conns : \A i \in ReceiveAt(c) :
        history[c][i].type \in Unsupported =>
            /\ \E x \in Range(Handling(c, i)) : x.ev = "log"
            /\ Sends(Handling(c, i)) = <<Sent(StartupComplete, "")>>
            /\ \A x \in Range(Handling(c, i)) : x.ev \notin {"call", "raise"}
            /\ IsLatest(c, i)
            /\ pc[c] = "returned"

\* ----------------------------------------------------------------- C7
\* The handler is not in the middle of handling the message received at i.
HandlingDone(c, i) ==
    ~IsLatest(c, i) \/ pc[c] \in {"receive", "returned", "raised"}

\* C7 as stated: every handled startup or shutdown is answered by exactly
\* one outbound message; an unsupported message is answered by one
\* 'lifespan.startup.complete' and ends the run.
C7_ExactlyOneReplyPerMessage ==
    \A c \in Conns : \A i \in ReceiveAt(c) :
        /\ Len(Sends(Handling(c, i))) <= 1
        /\ HandlingDone(c, i) =>
            IF history[c][i].type \in {Startup, Shutdown}
            THEN Len(Sends(Handling(c, i))) = 1
            ELSE /\ Sends(Handling(c, i)) = <<Sent(StartupComplete, "")>>
                 /\ Exited(c)

\* C7 amended: never two outbound messages for one inbound message; a
\* handled startup gets exactly one; a handled shutdown gets exactly one
\* when on_lifespan_end is configured and none when it is not; an
\* unsupported message ends the run with one 'lifespan.startup.complete'
\* when the awaited logger.error(...) call completes and none when it
\* raises.
C7_RepliesPerMessage ==
    \A c \in Conns : \A i \in ReceiveAt(c) :
        /\ Len(Sends(Handling(c, i))) <= 1
        /\ HandlingDone(c, i) =>
            CASE history[c][i].type = Startup ->
                    Len(Sends(Handling(c, i))) = 1
              [] history[c][i].type = Shutdown ->
                    Len(Sends(Handling(c, i)))
                        = IF on_lifespan_end[c] THEN 1 ELSE 0
              [] OTHER ->
                    /\ Sends(Handling(c, i))
                         = IF logger_error_awaitable
                           THEN <<Sent(StartupComplete, "")>> ELSE <<>>
                    /\ IsLatest(c, i)
                    /\ Exited(c)

\* Witness for C7: a run answered a startup through on_lifespan_begin and
\* then handled a shutdown without on_lifespan_end.
C7_Witness ==
    \E c \in Conns :
        /\ on_lifespan_begin[c] /\ ~on_lifespan_end[c]
        /\ Sent(StartupComplete, "") \in Range(history[c])
        /\ kind[c] = Shutdown
        /\ pc[c] = "returned"

\* ----------------------------------------------------------------- C8
\* Types of the startup and shutdown messages c has received, in order.
IsPhaseReceive(x) == x.ev = "receive" /\ x.type \in {Startup, Shutdown}
Phases(c) ==
    LET r == SelectSeq(history[c], IsPhaseReceive)
    IN  [i \in 1..Len(r) |-> r[i].type]

\* C8 as stated: a run processes at most one startup, and a shutdown only
\* after exactly one startup (AwaitingStartup -> AwaitingShutdown -> Done).
C8_OneStartupThenOneShutdown ==
    \A c \in Conns : Phases(c) \in {<<>>, <<Startup>>, <<Startup, Shutdown>>}

\* C8 amended: a run processes at most one shutdown and it is the last
\* message processed; a callback failure ends the run; the number of
\* startups processed before is not constrained by the handler.
C8_ShutdownOrFailureIsLast ==
    \A c \in Conns : \A i \in ReceiveAt(c) :
        /\ history[c][i].type = Shutdown =>
            /\ IsLatest(c, i)
            /\ pc[c] \in {"on_lifespan_end", "returned"}
        /\ (\E x \in Range(Handling(c, i)) : x.ev = "raise") =>
            /\ IsLatest(c, i)
            /\ Exited(c)

\* Witness for C8: a shutdown processed after two startups.
C8_Witness ==
    \E c \in Conns :
        /\ StartupsReceived(c) >= 2
        /\ Received(Shutdown) \in Range(history[c])

\* ----------------------------------------------------------------- C9
\* One of the exit paths has been taken: a callback raised, or a shutdown
\* or unsupported message was received.
ExitPathTaken(c) ==
    \E x \in Range(history[c]) :
        \/ x.ev = "raise" /\ x.type \in {"on_lifespan_begin", "on_lifespan_end"}
        \/ x.ev = "receive" /\ x.type # Startup

\* C9: the handler has returned only if a callback failed or a shutdown or
\* unsupported message was received.  Otherwise it has not exited: it is
\* at `await receive()`, or inside on_lifespan_begin for the startup just
\* received; after a startup answered with 'lifespan.startup.complete' it
\* is at `await receive()`.
C9_ReturnsOnlyViaExitPaths ==
    \A c \in Conns :
        /\ pc[c] = "returned" => ExitPathTaken(c)
        /\ ~ExitPathTaken(c) =>
            \/ pc[c] = "receive"
            \/ /\ pc[c] = "on_lifespan_begin"
               /\ history[c][Len(history[c])] = Called("on_lifespan_begin")
        /\ (/\ kind[c] = Startup
            /\ history[c][Len(history[c])] = Sent(StartupComplete, ""))
           => pc[c] = "receive"

\* Witness for C9: two startups answered through on_lifespan_begin and the
\* handler is still awaiting the next message.
C9_Witness ==
    \E c \in Conns :
        /\ on_lifespan_begin[c]
        /\ StartupsReceived(c) >= 2
        /\ history[c][Len(history[c])] = Sent(StartupComplete, "")
        /\ pc[c] = "receive"

\* ---------------------------------------------------------------- C10
\* Every awaited callback eventually returns or raises.
CallbackCompletes(c) ==
    \/ OnBeginReturns(c)
    \/ \E e \in Errors : OnBeginRaises(c, e)
    \/ OnEndReturns(c)
    \/ \E e \in Errors : OnEndRaises(c, e)

\* The host eventually delivers a shutdown or an unsupported message.
HostEndsLifespan(c) ==
    \/ ShutdownNoCallback(c)
    \/ ShutdownCallback(c)
    \/ \E k \in Unsupported : UnsupportedMessage(c, k)

LiveSpec ==
    /\ Spec
    /\ \A c \in Conns :
        /\ WF_vars(CallbackCompletes(c))
        /\ SF_vars(HostEndsLifespan(c))

\* C10: under these assumptions every run of handle_lifespan eventually
\* returns, and a run that has received 'lifespan.shutdown' returns.
C10_EventuallyReturns ==
    /\ \A c \in Conns : <>(pc[c] = "returned")
    /\ \A c \in Conns : (kind[c] = Shutdown) ~> (pc[c] = "returned")

\* What the code does guarantee under the same assumptions: every run
\* ends, by returning or by the TypeError of the unsupported branch.
EventuallyExits == \A c \in Conns : <>Exited(c)

\* A received shutdown always leads to a return.
ShutdownAlwaysReturns ==
    \A c \in Conns : (kind[c] = Shutdown) ~> (pc[c] = "returned")

\* ---------------------------------------------------------------- C11
InCallback(c) == pc[c] \in {"on_lifespan_begin", "on_lifespan_end"}

\* C11: while an invoked callback has neither returned nor raised, the
\* handler has sent nothing since invoking it and has not exited, and the
\* only step that moves the handler on is that callback returning or
\* raising: there is no step that sends, receives or returns around a
\* callback that is still running.
C11_HungCallbackBlocks ==
    /\ [](\A c \in Conns : InCallback(c) =>
            /\ history[c][Len(history[c])] = Called(pc[c])
            /\ ~Exited(c))
    /\ [][\A c \in Conns :
            (InCallback(c) /\ <<pc[c], history[c]>>' # <<pc[c], history[c]>>)
            => /\ Len(history'[c]) > Len(history[c])
               /\ SubSeq(history'[c], 1, Len(history[c])) = history[c]
               /\ history'[c][Len(history[c]) + 1].ev \in {"return", "raise"}
               /\ history'[c][Len(history[c]) + 1].type = pc[c]]_vars

\* Witness for C11: on_lifespan_end of one connection is still running
\* while the other connection has already run to its end.
C11_Witness ==
    \E c, d \in Conns :
        /\ pc[c] = "on_lifespan_end"
        /\ c # d /\ Exited(d)

\* ---------------------------------------------------------------- C12
\* The inputs of a run: the messages it received and the outcomes of the
\* callbacks (and of the awaited logger call) it invoked.
IsInput(x) == x.ev \in {"receive", "return", "raise"}
Inputs(c) == SelectSeq(history[c], IsInput)

\* What connection c sends on input x, from c's own configuration.
ReplyTo(c, x) ==
    CASE x.ev = "receive" /\ x.type = Startup ->
            IF on_lifespan_begin[c] THEN <<>>
            ELSE <<Sent(StartupComplete, "")>>
      [] x.ev = "receive" /\ x.type = Shutdown -> <<>>
      [] x.ev = "receive" /\ x.type \notin {Startup, Shutdown} ->
            IF logger_error_awaitable THEN <<Sent(StartupComplete, "")>>
            ELSE <<>>
      [] x.ev = "return" /\ x.type = "on_lifespan_begin" ->
            <<Sent(StartupComplete, "")>>
      [] x.ev = "return" /\ x.type = "on_lifespan_end" ->
            <<Sent(ShutdownComplete, "")>>
      [] x.ev = "raise" /\ x.type = "on_lifespan_begin" ->
            <<Sent(StartupFailed, str(x.error))>>
      [] x.ev = "raise" /\ x.type = "on_lifespan_end" ->
            <<Sent(ShutdownFailed, str(x.error))>>
      [] OTHER -> <<>>

\* Input x ends connection c's run.
EndsRun(c, x) ==
    \/ x.ev = "raise"
    \/ x.ev = "return" /\ x.type = "on_lifespan_end"
    \/ x.ev = "receive" /\ x.type = Shutdown /\ ~on_lifespan_end[c]
    \/ x.ev = "receive" /\ x.type \notin {Startup, Shutdown}
         /\ logger_error_awaitable

RECURSIVE ExpectedSends(_, _)
ExpectedSends(c, inputs) ==
    IF inputs = <<>> THEN <<>>
    ELSE ReplyTo(c, Head(inputs)) \o ExpectedSends(c, Tail(inputs))

\* C12: the outbound messages of each run are those its own inputs call
\* for, in order, and it has exited exactly when one of its own inputs
\* ends the run, whatever the other connection has received or suffered;
\* and every step changes one connection only, leaving the other
\* connection's position, message and history as they were.
C12_ConnectionsIndependent ==
    /\ [](\A c \in Conns :
            /\ Sends(history[c]) = ExpectedSends(c, Inputs(c))
            /\ Exited(c) <=> \E x \in Range(Inputs(c)) : EndsRun(c, x))
    /\ [][\E c \in Conns : \A d \in Conns \ {c} :
            <<pc[d], kind[d], history[d]>>' = <<pc[d], kind[d], history[d]>>
         ]_vars

\* Witness for C12: on_lifespan_begin failed on one connection, which has
\* exited, and the other connection has had a startup answered with
\* 'lifespan.startup.complete' and is awaiting its next message.
C12_Witness ==
    \E c, d \in Conns :
        /\ c # d
        /\ history[c] # <<>>
        /\ history[c][Len(history[c])].type = StartupFailed
        /\ pc[c] = "returned"
        /\ history[d] # <<>>
        /\ history[d][Len(history[d])] = Sent(StartupComplete, "")
        /\ pc[d] = "receive"

\* ---------------------------------------------------------------- C13
\* C13: a call of handle_not_found, whatever its scope, has at every
\* moment sent a prefix of exactly two messages and nothing else (it never
\* calls receive): 'http.response.start' with status 404 and the single
\* header content-type: application/json, then 'http.response.body' with
\* body {"error": "Not Found"}; it has returned once both are sent.
C13_NotFoundResponse ==
    \A r \in Requests : http_handler[r] = "handle_not_found" =>
        LET start == [ev |-> "send",
                      message |-> [type |-> "http.response.start",
                                   status |-> 404,
                                   headers |-> << <<"content-type",
                                                    "application/json">> >>]]
            body == [ev |-> "send",
                     message |-> [type |-> "http.response.body",
                                  body |-> "{\"error\": \"Not Found\"}"]]
        IN  /\ http_scope[r] \in Scopes
            /\ http_pc[r] \in {"body", "returned"}
            /\ http_pc[r] = "body" => http_history[r] = <<start>>
            /\ http_pc[r] = "returned" => http_history[r] = <<start, body>>

\* Witness for C13: handle_not_found has returned for a scope whose path
\* is the health-check path.
C13_Witness ==
    \E r \in Requests :
        /\ http_handler[r] = "handle_not_found"
        /\ http_scope[r].path = "/health"
        /\ http_pc[r] = "returned"

\* ---------------------------------------------------------------- C14
\* C14: a call of handle_health_check, whatever its scope, has at every
\* moment sent a prefix of exactly two messages and nothing else (it never
\* calls receive): 'http.response.start' with status 200 and the single
\* header content-type: application/json, then 'http.response.body' with
\* body {"status": "ok"}; it has returned once both are sent.
C14_HealthCheckResponse ==
    \A r \in Requests : http_handler[r] = "handle_health_check" =>
        LET start == [ev |-> "send",
                      message |-> [type |-> "http.response.start",
                                   status |-> 200,
                                   headers |-> << <<"content-type",
                                                    "application/json">> >>]]
            body == [ev |-> "send",
                     message |-> [type |-> "http.response.body",
                                  body |-> "{\"status\": \"ok\"}"]]
        IN  /\ http_scope[r] \in Scopes
            /\ http_pc[r] \in {"body", "returned"}
            /\ http_pc[r] = "body" => http_history[r] = <<start>>
            /\ http_pc[r] = "returned" => http_history[r] = <<start, body>>

\* Witness for C14: handle_health_check has returned for a POST scope.
C14_Witness ==
    \E r \in Requests :
        /\ http_handler[r] = "handle_health_check"
        /\ http_scope[r].method = "POST"
        /\ http_pc[r] = "returned"

\* ---------------------------------------------------------------- C15
\* C15: when a 'lifespan.startup' is handled with on_lifespan_begin
\* configured, nothing is sent while the callback is running; once it has
\* returned normally it was invoked exactly once for that message, exactly
\* one 'lifespan.startup.complete' follows its return, and the handler is
\* back at `await receive()`.
C15_StartupCallbackThenComplete ==
    \A c \in Conns : \A i \in ReceiveAt(c) :
        (history[c][i].type = Startup /\ on_lifespan_begin[c]) =>
            /\ (IsLatest(c, i) /\ pc[c] = "on_lifespan_begin") =>
                SelectSeq(Handling(c, i), IsCallbackEvent)
                    = <<Called("on_lifespan_begin")>>
            /\ Returned("on_lifespan_begin") \in Range(Handling(c, i)) =>
                /\ SelectSeq(Handling(c, i), IsCallbackEvent)
                     = <<Called("on_lifespan_begin"),
                         Returned("on_lifespan_begin"),
                         Sent(StartupComplete, "")>>
                /\ IsLatest(c, i) => pc[c] = "receive"

\* Witness for C15: on_lifespan_begin returned for a startup and the
\* handler has since received another message.
C15_Witness ==
    \E c \in Conns : \E i \in ReceiveAt(c) :
        /\ history[c][i].type = Startup
        /\ Returned("on_lifespan_begin") \in Range(Handling(c, i))
        /\ ~IsLatest(c, i)

\* ---------------------------------------------------------------- C16
IsCall(x) == x.ev = "call"

\* C16: for each received message at most one callback is invoked;
\* on_lifespan_begin only for a 'lifespan.startup' and only when
\* configured, on_lifespan_end only for a 'lifespan.shutdown' and only
\* when configured, none for an unsupported type; nothing is invoked
\* before a message is received, and no callback is invoked after a
\* callback has raised.
C16_CallbacksOnlyWhenDue ==
    \A c \in Conns :
        /\ history[c] # <<>> => history[c][1].ev = "receive"
        /\ \A i \in ReceiveAt(c) :
            LET calls == SelectSeq(Handling(c, i), IsCall)
            IN  /\ Len(calls) <= 1
                /\ \A x \in Range(calls) :
                    \/ /\ x.type = "on_lifespan_begin"
                       /\ history[c][i].type = Startup
                       /\ on_lifespan_begin[c]
                    \/ /\ x.type = "on_lifespan_end"
                       /\ history[c][i].type = Shutdown
                       /\ on_lifespan_end[c]
                /\ history[c][i].type \notin {Startup, Shutdown} =>
                    calls = <<>>
        /\ \A j, m \in 1..Len(history[c]) :
            (history[c][j].ev = "raise" /\ j < m) => history[c][m].ev # "call"

\* Witness for C16: a run with on_lifespan_begin but no on_lifespan_end
\* invoked on_lifespan_begin for each of two startups and then handled a
\* shutdown.
C16_Witness ==
    \E c \in Conns :
        /\ on_lifespan_begin[c] /\ ~on_lifespan_end[c]
        /\ Len(SelectSeq(history[c], IsCall)) >= 2
        /\ kind[c] = Shutdown

\* ---------------------------------------------------------------- C17
TerminalMessages == {StartupFailed, ShutdownFailed, ShutdownComplete}
IsTerminalSend(x) == x.ev = "send" /\ x.type \in TerminalMessages

\* C17: a run sends at most one of 'lifespan.startup.failed',
\* 'lifespan.shutdown.failed' and 'lifespan.shutdown.complete', and that
\* send is the last event of the run: the handler has returned, with no
\* send and no receive after it.
C17_TerminalMessageIsLast ==
    \A c \in Conns :
        /\ Len(SelectSeq(history[c], IsTerminalSend)) <= 1
        /\ \A j \in 1..Len(history[c]) : IsTerminalSend(history[c][j]) =>
            /\ j = Len(history[c])
            /\ pc[c] = "returned"

\* Witness for C17: 'lifespan.shutdown.complete' sent at the end of a run
\* that had answered a startup before.
C17_Witness ==
    \E c \in Conns :
        /\ StartupsReceived(c) >= 1
        /\ history[c][Len(history[c])] = Sent(ShutdownComplete, "")

\* ---------------------------------------------------------------- C18
\* The handlings of an unsupported message of type k: logged, then the
\* complete send or the TypeError of the await.
UnsupportedReactions(k) ==
    {<<Logged("error", "Unsupported message type: " \o k), x>> :
        x \in IF logger_error_awaitable
              THEN {Sent(StartupComplete, "")}
              ELSE {Raised("await",
                     <<"object NoneType can't be used in 'await' expression">>)}}

\* The complete handlings of a message of type k that connection c's
\* configuration allows, one per callback outcome.
Reactions(c, k) ==
    CASE k = Startup ->
            IF on_lifespan_begin[c]
            THEN {<<Logged("ainfo", "lifespan startup"),
                    Called("on_lifespan_begin"),
                    Returned("on_lifespan_begin"),
                    Sent(StartupComplete, "")>>}
                 \cup {<<Logged("ainfo", "lifespan startup"),
                         Called("on_lifespan_begin"),
                         Raised("on_lifespan_begin", e),
                         Logged("aerror", "lifespan startup failed"),
                         Sent(StartupFailed, str(e))>> : e \in Errors}
            ELSE {<<Sent(StartupComplete, "")>>}
      [] k = Shutdown ->
            IF on_lifespan_end[c]
            THEN {<<Logged("ainfo", "lifespan shutdown"),
                    Called("on_lifespan_end"),
                    Returned("on_lifespan_end"),
                    Sent(ShutdownComplete, "")>>}
                 \cup {<<Logged("ainfo", "lifespan shutdown"),
                         Called("on_lifespan_end"),
                         Raised("on_lifespan_end", e),
                         Logged("aerror", "lifespan shutdown failed"),
                         Sent(ShutdownFailed, str(e))>> : e \in Errors}
            ELSE {<<>>}
      [] OTHER ->
            UnsupportedReactions(k)

\* C18: what the handler does for a message is one of the reactions
\* fixed by the message's type and the configured callbacks, wherever the
\* message comes in the run; and a handler at `await receive()` accepts a
\* shutdown or an unsupported message whatever it has received before.
C18_DispatchIsHistoryIndependent ==
    \A c \in Conns :
        /\ \A i \in ReceiveAt(c) : HandlingDone(c, i) =>
            Handling(c, i) \in Reactions(c, history[c][i].type)
        /\ pc[c] = "receive" =>
            /\ ENABLED (ShutdownNoCallback(c) \/ ShutdownCallback(c))
            /\ ENABLED (\E k \in Unsupported : UnsupportedMessage(c, k))
            /\ StartupsReceived(c) < MaxStartups =>
                ENABLED (StartupNoCallback(c) \/ StartupCallback(c))

\* Witness for C18: one connection invoked on_lifespan_begin for a second
\* startup and answered it with 'lifespan.startup.complete'; the other
\* handled a shutdown through on_lifespan_end before any startup.
C18_Witness ==
    \E c, d \in Conns :
        /\ Len(SelectSeq(history[c], IsCall)) >= 2
        /\ history[c][Len(history[c])] = Sent(StartupComplete, "")
        /\ StartupsReceived(d) = 0
        /\ history[d] # <<>>
        /\ history[d][Len(history[d])] = Sent(ShutdownComplete, "")

====
